---- MODULE Spec2Model ----
(***************************************************************************)
(* Model of src/src/preprocessing.py: the data-preprocessing functions and *)
(* the process-wide random generator that shuffle_list shares between      *)
(* calls.  A behaviour is a sequence of library calls made by one          *)
(* single-threaded caller: a call action computes the whole function body  *)
(* and leaves its arguments and its outcome in the state, Return hands     *)
(* control back to the caller.                                             *)
(***************************************************************************)
EXTENDS Integers, Sequences, FiniteSets

VARIABLES pc, op, data, data0, fill_value, min_val, max_val, new_min, new_max, seed,
          text, stop_words, result, rng

\* data0 is the list as the caller passed it, data the caller's list after
\* the call
vars == <<pc, op, data, data0, fill_value, min_val, max_val, new_min, new_max, seed,
          text, stop_words, result, rng>>

(***************************************************************************)
(* Python values.  Every value is a record of the same shape:              *)
(*   t   the type: "none", "bool", "int", "float", "str" ("unset" marks an *)
(*       argument the current call does not take)                          *)
(*   k   for a float: "fin", "nan" or "inf" (num = 1 for +inf, -1 for -inf)*)
(*   num, den   the numeric value num/den of a bool, int or finite float   *)
(*   s   the characters of a str, one character per element                *)
(***************************************************************************)
NoneV == [t |-> "none", k |-> "fin", num |-> 0, den |-> 1, s |-> <<>>]

Unset == [t |-> "unset", k |-> "fin", num |-> 0, den |-> 1, s |-> <<>>]

PyStr(cs) == [t |-> "str", k |-> "fin", num |-> 0, den |-> 1, s |-> cs]

PyInt(n) == [t |-> "int", k |-> "fin", num |-> n, den |-> 1, s |-> <<>>]

PyBool(b) == [t |-> "bool", k |-> "fin", num |-> IF b THEN 1 ELSE 0, den |-> 1, s |-> <<>>]

PyFloat(n, d) == [t |-> "float", k |-> "fin", num |-> n, den |-> d, s |-> <<>>]

NaN == [t |-> "float", k |-> "nan", num |-> 0, den |-> 1, s |-> <<>>]

PosInf == [t |-> "float", k |-> "inf", num |-> 1, den |-> 1, s |-> <<>>]

NegInf == [t |-> "float", k |-> "inf", num |-> -1, den |-> 1, s |-> <<>>]

EmptyStr == PyStr(<<>>)

\* isinstance(x, float)
IsFloat(x) == x.t = "float"

\* isinstance(x, (int, float)): bool is a subclass of int
IsNumeric(x) == x.t \in {"bool", "int", "float"}

\* math.isnan(x) for a float x
IsNan(x) == x.t = "float" /\ x.k = "nan"

\* a < b for numbers: every comparison with a NaN is False
NumLt(a, b) ==
    /\ ~IsNan(a)
    /\ ~IsNan(b)
    /\ CASE a.k = "inf" -> a.num < 0 /\ ~(b.k = "inf" /\ b.num < 0)
         [] b.k = "inf" -> b.num > 0
         [] OTHER -> a.num * b.den < b.num * a.den

\* a > b for numbers
NumGt(a, b) == NumLt(b, a)

\* a == b: numbers compare by value across bool, int and float, a NaN equals
\* nothing, None equals only None, a str only a str of the same characters
PyEq(a, b) ==
    CASE IsNumeric(a) /\ IsNumeric(b) ->
            /\ ~IsNan(a)
            /\ ~IsNan(b)
            /\ a.k = b.k
            /\ IF a.k = "inf" THEN a.num = b.num ELSE a.num * b.den = b.num * a.den
      [] a.t = "str" /\ b.t = "str" -> a.s = b.s
      [] a.t = "none" /\ b.t = "none" -> TRUE
      [] OTHER -> FALSE

(***************************************************************************)
(* Outcome of a call: a returned list or a raised exception.               *)
(***************************************************************************)
NoResult == [kind |-> "none", val |-> <<>>, exc |-> ""]

Returned(v) == [kind |-> "return", val |-> v, exc |-> ""]

Raised(e) == [kind |-> "raise", val |-> <<>>, exc |-> e]

(***************************************************************************)
(* Bounds of the model.                                                    *)
(***************************************************************************)
MaxLen == 3

\* the lists over a pool of values, up to a length
SeqsUpTo(pool, n) == UNION {[1..m -> pool] : m \in 0..n}

(***************************************************************************)
(* 1. Cleaning functions                                                   *)
(***************************************************************************)
\* missing_values = {None, ""}
missing_values == {NoneV, EmptyStr}

\* a mistaken membership test: truthiness instead of membership
InMissingValuesTruthy(item) ==
    \/ item.t = "none"
    \/ item.t = "str" /\ item.s = <<>>
    \/ IsNumeric(item) /\ ~IsNan(item) /\ item.k = "fin" /\ item.num = 0

\* item in missing_values: set membership is by ==
InMissingValues(item) == \E m \in missing_values : PyEq(item, m)

\* a mistaken NaN test that never fires
is_nan_never(item) == FALSE

\* is_nan as set by the try block: isinstance(item, float) and math.isnan(item)
is_nan(item) == IsFloat(item) /\ IsNan(item)

RECURSIVE remove_missing_loop(_, _, _)
remove_missing_loop(d, i, cleaned_data) ==
    IF i > Len(d) THEN cleaned_data
    ELSE IF InMissingValues(d[i]) THEN remove_missing_loop(d, i + 1, cleaned_data)
    ELSE IF is_nan(d[i]) THEN remove_missing_loop(d, i + 1, cleaned_data)
    ELSE remove_missing_loop(d, i + 1, Append(cleaned_data, d[i]))

remove_missing_values(d) == remove_missing_loop(d, 1, <<>>)

\* a mistaken fill: the NaN branch keeps the item
FillItemKeepNan(item, fv) == IF InMissingValues(item) THEN fv ELSE item

\* what one iteration of filling_missing_values appends
FillItem(item, fv) ==
    IF InMissingValues(item) THEN fv
    ELSE IF is_nan(item) THEN fv
    ELSE item

RECURSIVE filling_missing_loop(_, _, _, _)
filling_missing_loop(d, fv, i, cleaned_data) ==
    IF i > Len(d) THEN cleaned_data
    ELSE filling_missing_loop(d, fv, i + 1, Append(cleaned_data, FillItem(d[i], fv)))

filling_missing_values(d, fv) == filling_missing_loop(d, fv, 1, <<>>)

\* the scalar values the cleaning functions are called with
CleanPool ==
    {NoneV, EmptyStr, NaN, PyInt(0), PyFloat(3, 2), PyBool(FALSE), PyStr(<<" ">>)}

\* the fill values
FillPool == {PyInt(0), NoneV, EmptyStr, NaN, PyStr(<<"x">>)}

(***************************************************************************)
(* 2. Numeric functions                                                    *)
(***************************************************************************)
MaxClipLen == 2

\* a mistaken clip_values that compares the bounds only on reaching a
\* numeric element
RECURSIVE clip_values_late_check(_, _, _)
clip_values_late_check(d, lo, hi) ==
    IF d = <<>> THEN Returned(<<>>)
    ELSE IF ~IsNumeric(Head(d)) THEN clip_values_late_check(Tail(d), lo, hi)
    ELSE IF NumGt(lo, hi) THEN Raised("ValueError")
    ELSE LET rest == clip_values_late_check(Tail(d), lo, hi)
             item == Head(d)
             c == IF NumLt(item, lo) THEN lo ELSE IF NumGt(item, hi) THEN hi ELSE item
         IN Returned(<<c>> \o rest.val)

\* the loop of clip_values
RECURSIVE clip_loop(_, _, _, _, _)
clip_loop(d, lo, hi, i, clipped_data) ==
    IF i > Len(d) THEN clipped_data
    ELSE LET item == d[i]
         IN IF ~IsNumeric(item) THEN clip_loop(d, lo, hi, i + 1, clipped_data)
            ELSE IF NumLt(item, lo) THEN clip_loop(d, lo, hi, i + 1, Append(clipped_data, lo))
            ELSE IF NumGt(item, hi) THEN clip_loop(d, lo, hi, i + 1, Append(clipped_data, hi))
            ELSE clip_loop(d, lo, hi, i + 1, Append(clipped_data, item))

\* clip_values(data, min_val, max_val): the bounds are compared first
clip_values(d, lo, hi) ==
    IF NumGt(lo, hi) THEN Raised("ValueError")
    ELSE Returned(clip_loop(d, lo, hi, 1, <<>>))

\* the elements of the lists clipped
ClipPool ==
    {PyInt(-1), PyInt(1), PyInt(3), PyFloat(3, 2), NaN, PosInf, PyBool(TRUE),
     PyStr(<<"s", "k", "i", "p">>)}

\* the values of min_val and max_val
BoundPool == {PyInt(0), PyInt(1), PyInt(2), PyFloat(1, 2), NaN}

(***************************************************************************)
(* convert_to_integers: int(float(item)) for each item.  A str is a        *)
(* sequence of characters over the digits, ".", "+", "-", " ", "e" and      *)
(* lower-case letters; float() reads it as the language's float syntax:    *)
(* surrounding blanks stripped, an optional sign, then inf, infinity, nan, *)
(* or a decimal with an optional power-of-ten exponent.                    *)
(***************************************************************************)
MaxConvLen == 2

DigitChars == <<"0", "1", "2", "3", "4", "5", "6", "7", "8", "9">>

IsDigit(c) == \E d \in 1..10 : DigitChars[d] = c

DigitVal(c) == (CHOOSE d \in 1..10 : DigitChars[d] = c) - 1

AllDigits(cs) == \A i \in 1..Len(cs) : IsDigit(cs[i])

RECURSIVE Pow10(_)
Pow10(n) == IF n = 0 THEN 1 ELSE 10 * Pow10(n - 1)

\* the number a string of digits writes
RECURSIVE DigitsVal(_)
DigitsVal(cs) ==
    IF cs = <<>> THEN 0
    ELSE 10 * DigitsVal(SubSeq(cs, 1, Len(cs) - 1)) + DigitVal(cs[Len(cs)])

\* the digits of cs without leading zeros
RECURSIVE StripZeros(_)
StripZeros(cs) == IF cs # <<>> /\ Head(cs) = "0" THEN StripZeros(Tail(cs)) ELSE cs

\* str.strip() as float() applies it
RECURSIVE Strip(_)
Strip(cs) ==
    IF cs # <<>> /\ Head(cs) = " " THEN Strip(Tail(cs))
    ELSE IF cs # <<>> /\ cs[Len(cs)] = " " THEN Strip(SubSeq(cs, 1, Len(cs) - 1))
    ELSE cs

\* the first index of c in cs, or Len(cs) + 1
FirstIndex(cs, c) ==
    IF \E i \in 1..Len(cs) : cs[i] = c
    THEN CHOOSE i \in 1..Len(cs) : cs[i] = c /\ \A j \in 1..(i - 1) : cs[j] # c
    ELSE Len(cs) + 1

HasSign(cs) == cs # <<>> /\ Head(cs) \in {"+", "-"}

Unsigned(cs) == IF HasSign(cs) THEN Tail(cs) ELSE cs

SignOf(cs) == IF cs # <<>> /\ Head(cs) = "-" THEN -1 ELSE 1

\* the parts of a decimal literal: mantissa digits before and after the
\* point, and the exponent part after "e" (with has_exp telling it is there)
DecimalParts(body) ==
    LET e == FirstIndex(body, "e")
        mant == SubSeq(body, 1, e - 1)
        dot == FirstIndex(mant, ".")
    IN [int |-> SubSeq(mant, 1, dot - 1),
        frac |-> SubSeq(mant, dot + 1, Len(mant)),
        has_exp |-> e <= Len(body),
        exp |-> SubSeq(body, e + 1, Len(body))]

\* body is a decimal literal: digits with at most one point and at least one
\* digit, then optionally e, an optional sign and at least one digit
IsDecimal(body) ==
    LET p == DecimalParts(body)
    IN /\ AllDigits(p.int)
       /\ AllDigits(p.frac)
       /\ Len(p.int) + Len(p.frac) >= 1
       /\ p.has_exp => (Unsigned(p.exp) # <<>> /\ AllDigits(Unsigned(p.exp)))

\* the largest decimal exponent of a finite float: 10^308 is finite, and
\* 1.79769313...e308 is the largest float
DBL_MAX_10_EXP == 308

DBL_MAX_LEAD == 179769313

\* the float nearest to sign * D * 10^E, for an integer D of at most nine
\* digits: infinite beyond the largest float, otherwise the decimal itself
\* (den a power of ten, trailing zeros dropped)
RECURSIVE Reduce(_, _)
Reduce(n, d) == IF d > 1 /\ n % 10 = 0 THEN Reduce(n \div 10, d \div 10) ELSE [num |-> n, den |-> d]

DecimalToFloat(sign, digits, E) ==
    LET sig == StripZeros(digits)
        nd == Len(sig)
        D == DigitsVal(sig)
        adj == nd + E
    IN IF nd = 0 THEN PyFloat(0, 1)
       ELSE IF \/ adj > DBL_MAX_10_EXP + 1
               \/ adj = DBL_MAX_10_EXP + 1 /\ D * Pow10(9 - nd) > DBL_MAX_LEAD
            THEN IF sign < 0 THEN NegInf ELSE PosInf
       ELSE IF E >= 0 THEN PyFloat(sign * D * Pow10(E), 1)
       ELSE LET r == Reduce(D, Pow10(-E)) IN PyFloat(sign * r.num, r.den)

\* float(item): a float, or the exception raised
to_float(item) ==
    CASE item.t = "float" -> [exc |-> "", val |-> item]
      [] item.t \in {"int", "bool"} -> [exc |-> "", val |-> PyFloat(item.num, 1)]
      [] item.t = "str" ->
            LET cs == Strip(item.s)
                body == Unsigned(cs)
                p == DecimalParts(body)
            IN IF body \in {<<"i", "n", "f">>, <<"i", "n", "f", "i", "n", "i", "t", "y">>}
               THEN [exc |-> "", val |-> IF SignOf(cs) < 0 THEN NegInf ELSE PosInf]
               ELSE IF body = <<"n", "a", "n">> THEN [exc |-> "", val |-> NaN]
               ELSE IF IsDecimal(body)
               THEN [exc |-> "",
                     val |-> DecimalToFloat(SignOf(cs), p.int \o p.frac,
                                (IF p.has_exp
                                 THEN SignOf(p.exp) * DigitsVal(Unsigned(p.exp))
                                 ELSE 0) - Len(p.frac))]
               ELSE [exc |-> "ValueError", val |-> NaN]
      [] OTHER -> [exc |-> "TypeError", val |-> NaN]

\* int(x) for a float x: truncation toward zero; a NaN raises ValueError and
\* an infinity raises OverflowError
to_int(x) ==
    CASE x.k = "nan" -> [exc |-> "ValueError", val |-> 0]
      [] x.k = "inf" -> [exc |-> "OverflowError", val |-> 0]
      [] OTHER -> [exc |-> "",
                   val |-> IF x.num >= 0 THEN x.num \div x.den ELSE -((-x.num) \div x.den)]

\* int(float(item))
int_float(item) ==
    LET f == to_float(item)
    IN IF f.exc # "" THEN [exc |-> f.exc, val |-> 0] ELSE to_int(f.val)

\* the loop of convert_to_integers: ValueError and TypeError are caught and
\* the item excluded, any other exception leaves the function
RECURSIVE convert_loop(_, _, _)
convert_loop(d, i, int_values) ==
    IF i > Len(d) THEN Returned(int_values)
    ELSE LET r == int_float(d[i])
         IN IF r.exc = "" THEN convert_loop(d, i + 1, Append(int_values, PyInt(r.val)))
            ELSE IF r.exc \in {"ValueError", "TypeError"} THEN convert_loop(d, i + 1, int_values)
            ELSE Raised(r.exc)

convert_to_integers(d) == convert_loop(d, 1, <<>>)

\* the items of the lists converted: strings, and the None and NaN of the tests
ConvPool ==
    {PyStr(<<"1", "0">>), PyStr(<<"2", "0", ".", "5">>), PyStr(<<"3", "0", ".", "0">>),
     PyStr(<<"1", ".", "9">>), PyStr(<<"-", "1", ".", "9">>), PyStr(<<"0">>),
     PyStr(<<" ", "7", " ">>), PyStr(<<"1", "e", "2">>), PyStr(<<"5", "e", "-", "1">>),
     PyStr(<<"t", "e", "x", "t", "o">>), EmptyStr,
     PyStr(<<"i", "n", "f">>), PyStr(<<"-", "i", "n", "f">>), PyStr(<<"n", "a", "n">>),
     PyStr(<<"1", "e", "9", "9", "9">>), NoneV, NaN}

(***************************************************************************)
(* 4. Structure functions: shuffle_list and the module-level generator of  *)
(* the random library.  The generator is abstracted to a state in          *)
(* 0..RngMod-1 that every draw advances; seeding sets it from the seed     *)
(* alone.                                                                  *)
(***************************************************************************)
\* the generator states
RngMod == 16

RngStates == 0..(RngMod - 1)

MaxShuffleLen == 3

\* a mistaken seeding that leaves the generator as it is
random_seed_ignored(g, sd) == g

\* random.seed(seed): the generator state becomes a function of the seed alone
random_seed(g, sd) == sd.num % RngMod

\* one draw advances the generator
next_state(g) == (5 * g + 3) % RngMod

\* the number below n that a generator state yields
randbelow(g, n) == (g \div 4) % n

\* a mistaken exchange that overwrites x[i] and leaves x[j]
SwapOverwrite(x, i, j) == [x EXCEPT ![i] = x[j]]

\* x[i], x[j] = x[j], x[i]
Swap(x, i, j) == [x EXCEPT ![i] = x[j], ![j] = x[i]]

\* random.shuffle(x): for i from the last index down to the second, exchange
\* x[i] with x[j] for a drawn j <= i.  Yields the list and the generator after.
RECURSIVE random_shuffle(_, _, _)
random_shuffle(x, i, g) ==
    IF i < 2 THEN [x |-> x, rng |-> g]
    ELSE LET g1 == next_state(g)
             j == 1 + randbelow(g1, i)
         IN random_shuffle(Swap(x, i, j), i - 1, g1)

\* a mistaken shuffle_list that shuffles the caller's list itself
shuffle_list_in_place(d, sd, g) ==
    LET g1 == IF sd.t # "none" THEN random_seed(g, sd) ELSE g
        r == random_shuffle(d, Len(d), g1)
    IN [ret |-> r.x, data |-> r.x, rng |-> r.rng]

\* shuffle_list(data, seed) run with the generator in state g: the returned
\* list, the caller's list after the call, and the generator after the call
shuffle_list(d, sd, g) ==
    LET g1 == IF sd.t # "none" THEN random_seed(g, sd) ELSE g
        shuffled_list == d
        r == random_shuffle(shuffled_list, Len(shuffled_list), g1)
    IN [ret |-> r.x, data |-> d, rng |-> r.rng]

\* the elements of the lists shuffled
ShufflePool == {PyInt(1), PyInt(2), PyInt(3)}

\* the seeds: None or an integer
SeedPool == {NoneV, PyInt(1), PyInt(42), PyInt(101)}

(***************************************************************************)
(* remove_duplicated_values: list(dict.fromkeys(data)).  A dict finds a    *)
(* key when it is the same object or compares equal (equal values hash     *)
(* alike).  The num field of a NaN tells NaN objects apart.                *)
(***************************************************************************)
MaxDedupLen == 3

\* a second NaN object
NaN2 == [t |-> "float", k |-> "nan", num |-> 1, den |-> 1, s |-> <<>>]

\* a mistaken key comparison that also asks for the same type
KeyMatchSameType(a, b) == a = b \/ (a.t = b.t /\ PyEq(a, b))

\* the key lookup of a dict: identity, or equality
KeyMatch(a, b) == a = b \/ PyEq(a, b)

\* dict.fromkeys(data): a key already present keeps its first spelling and
\* its place
RECURSIVE fromkeys_loop(_, _, _)
fromkeys_loop(d, i, keys) ==
    IF i > Len(d) THEN keys
    ELSE IF \E j \in 1..Len(keys) : KeyMatch(keys[j], d[i])
         THEN fromkeys_loop(d, i + 1, keys)
         ELSE fromkeys_loop(d, i + 1, Append(keys, d[i]))

\* a mistaken variant that lists the keys newest first
RECURSIVE reversed_keys(_)
reversed_keys(x) == IF x = <<>> THEN <<>> ELSE Append(reversed_keys(Tail(x)), Head(x))

remove_duplicated_reversed(d) == reversed_keys(fromkeys_loop(d, 1, <<>>))

\* list(dict.fromkeys(data)): the keys in insertion order
remove_duplicated_values(d) == fromkeys_loop(d, 1, <<>>)

\* the elements of the lists deduplicated
DedupPool ==
    {PyInt(10), PyFloat(10, 1), PyBool(TRUE), PyInt(1), NaN, NaN2,
     PyStr(<<"a">>), NoneV}

(***************************************************************************)
(* Arithmetic on numbers: finite values are exact fractions, an int stays  *)
(* an int under + - *, / yields a float, and infinities and NaN follow the *)
(* float rules.  A division by zero yields DivError.                       *)
(***************************************************************************)
DivError == [t |-> "error", k |-> "fin", num |-> 0, den |-> 1, s |-> <<>>]

IsError(x) == x.t = "error"

RECURSIVE Gcd(_, _)
Gcd(a, b) == IF b = 0 THEN a ELSE Gcd(b, a % b)

Abs(n) == IF n < 0 THEN -n ELSE n

Sgn(n) == IF n < 0 THEN -1 ELSE IF n > 0 THEN 1 ELSE 0

\* the number n/d (d > 0) in lowest terms, a float when asked and else an int
MkNum(float, n, d) ==
    LET g == Gcd(Abs(n), d)
    IN IF float THEN PyFloat(n \div g, d \div g) ELSE PyInt(n \div d)

IsInf(x) == x.k = "inf"

IsZero(x) == x.k = "fin" /\ x.num = 0

InfOf(sign) == IF sign < 0 THEN NegInf ELSE PosInf

\* a + b
NumAdd(a, b) ==
    CASE IsError(a) \/ IsError(b) -> DivError
      [] IsNan(a) \/ IsNan(b) -> NaN
      [] IsInf(a) /\ IsInf(b) -> IF a.num = b.num THEN a ELSE NaN
      [] IsInf(a) -> a
      [] IsInf(b) -> b
      [] OTHER -> MkNum(IsFloat(a) \/ IsFloat(b), a.num * b.den + b.num * a.den, a.den * b.den)

\* -a
NumNeg(a) ==
    CASE IsError(a) -> DivError
      [] IsNan(a) -> NaN
      [] IsInf(a) -> InfOf(-a.num)
      [] OTHER -> MkNum(IsFloat(a), -a.num, a.den)

\* a - b
NumSub(a, b) == NumAdd(a, NumNeg(b))

\* a * b
NumMul(a, b) ==
    CASE IsError(a) \/ IsError(b) -> DivError
      [] IsNan(a) \/ IsNan(b) -> NaN
      [] IsInf(a) \/ IsInf(b) ->
            IF IsZero(a) \/ IsZero(b) THEN NaN ELSE InfOf(Sgn(a.num) * Sgn(b.num))
      [] OTHER -> MkNum(IsFloat(a) \/ IsFloat(b), a.num * b.num, a.den * b.den)

\* a / b: true division
NumDiv(a, b) ==
    CASE IsError(a) \/ IsError(b) -> DivError
      [] IsZero(b) -> DivError
      [] IsNan(a) \/ IsNan(b) -> NaN
      [] IsInf(a) /\ IsInf(b) -> NaN
      [] IsInf(a) -> InfOf(a.num * Sgn(b.num))
      [] IsInf(b) -> PyFloat(0, 1)
      [] OTHER -> MkNum(TRUE, a.num * b.den * Sgn(b.num), a.den * Abs(b.num))

\* min(x) for a non-empty list: the first element, replaced by each later
\* element that compares below the current one
RECURSIVE py_min(_, _, _)
py_min(x, i, cur) ==
    IF i > Len(x) THEN cur
    ELSE py_min(x, i + 1, IF NumLt(x[i], cur) THEN x[i] ELSE cur)

\* max(x) for a non-empty list
RECURSIVE py_max(_, _, _)
py_max(x, i, cur) ==
    IF i > Len(x) THEN cur
    ELSE py_max(x, i + 1, IF NumGt(x[i], cur) THEN x[i] ELSE cur)

\* [x for x in data if isinstance(x, (int, float))]
numeric_data(d) == SelectSeq(d, IsNumeric)

(***************************************************************************)
(* normalize_min_max                                                       *)
(***************************************************************************)
MaxNormLen == 3

\* new_min + ((x - min_val) * (new_max - new_min)) / range_val
Rescale(x, lo, range_val, nmin, nmax) ==
    NumAdd(nmin, NumDiv(NumMul(NumSub(x, lo), NumSub(nmax, nmin)), range_val))

normalize_min_max(d, nmin, nmax) ==
    IF d = <<>> THEN Returned(<<>>)
    ELSE LET nd == numeric_data(d)
         IN IF nd = <<>> THEN Returned(<<>>)
            ELSE LET lo == py_min(nd, 2, nd[1])
                     hi == py_max(nd, 2, nd[1])
                     range_val == NumSub(hi, lo)
                 IN IF PyEq(range_val, PyInt(0))
                    THEN Returned([i \in 1..Len(nd) |-> nmin])
                    ELSE LET out == [i \in 1..Len(nd) |->
                                        Rescale(nd[i], lo, range_val, nmin, nmax)]
                         IN IF \E i \in 1..Len(out) : IsError(out[i])
                            THEN Raised("ZeroDivisionError")
                            ELSE Returned(out)

\* the elements of the lists normalized
NormPool ==
    {PyInt(1), PyInt(3), PyFloat(3, 2), NaN, PosInf, PyStr(<<"s", "k", "i", "p">>)}

\* the values of new_min and new_max
NewBoundPool == {PyFloat(0, 1), PyFloat(1, 1), PyFloat(5, 2)}

(***************************************************************************)
(* flatten_list.  A list value is a record of type "list" whose s field    *)
(* holds its elements.                                                     *)
(***************************************************************************)
MaxFlattenLen == 3

PyList(items) == [t |-> "list", k |-> "list", num |-> 0, den |-> 1, s |-> items]

\* isinstance(item, list)
IsList(x) == x.t = "list"

\* a mistaken extend that adds the list itself as one element
extend_as_element(flattened, item) == Append(flattened, item)

\* flattened.extend(item)
extend(flattened, item) == flattened \o item.s

RECURSIVE flatten_loop(_, _, _)
flatten_loop(d, i, flattened) ==
    IF i > Len(d) THEN flattened
    ELSE flatten_loop(d, i + 1,
                      IF IsList(d[i]) THEN extend(flattened, d[i])
                      ELSE Append(flattened, d[i]))

flatten_list(d) == flatten_loop(d, 1, <<>>)

\* top-level elements: scalars, a string, and lists that are empty, flat,
\* and nested one level further
FlattenPool ==
    {PyInt(1), PyStr(<<"a", "b">>), PyList(<<>>), PyList(<<PyInt(1), PyInt(2)>>),
     PyList(<<PyInt(3), PyList(<<PyInt(4)>>)>>), PyList(<<PyList(<<>>)>>)}

(***************************************************************************)
(* Text functions.  A text is a str value: a tuple of characters.          *)
(***************************************************************************)
MaxTextLen == 4

\* str.lower() on one character of the modelled alphabet
lower_char(c) ==
    CASE c = "A" -> "a"
      [] c = "B" -> "b"
      [] OTHER -> c

\* text.lower()
lower(s) == [i \in 1..Len(s) |-> lower_char(s[i])]

\* the characters str.split() separates on
IsSpace(c) == c \in {" ", "\t", "\n", "\r"}

\* str.split(): runs of whitespace separate the words, none is empty
RECURSIVE split_loop(_, _, _, _)
split_loop(s, i, cur, words) ==
    IF i > Len(s) THEN (IF cur = <<>> THEN words ELSE Append(words, cur))
    ELSE IF IsSpace(s[i])
         THEN split_loop(s, i + 1, <<>>, IF cur = <<>> THEN words ELSE Append(words, cur))
         ELSE split_loop(s, i + 1, Append(cur, s[i]), words)

split(s) == split_loop(s, 1, <<>>, <<>>)

\* " ".join(words)
RECURSIVE join(_)
join(words) ==
    IF words = <<>> THEN <<>>
    ELSE IF Len(words) = 1 THEN words[1]
    ELSE words[1] \o <<" ">> \o join(Tail(words))

\* a mistaken membership test that lower-cases the stop words
in_stop_words_lowered(word, stop) ==
    \E i \in 1..Len(stop) : stop[i].t = "str" /\ lower(stop[i].s) = word

\* word in stop_words_set
in_stop_words(word, stop) ==
    \E i \in 1..Len(stop) : stop[i].t = "str" /\ stop[i].s = word

remove_stop_words(txt, stop) ==
    IF txt.t # "str" THEN EmptyStr
    ELSE LET words == split(lower(txt.s))
             Keep(word) == ~in_stop_words(word, stop)
         IN PyStr(join(SelectSeq(words, Keep)))

\* the characters of the texts filtered: letters of both cases and two
\* kinds of whitespace
StopTextChars == {"a", "B", " ", "\t"}

\* the texts filtered, and two arguments that are not strings
StopTextPool ==
    {PyStr(s) : s \in SeqsUpTo(StopTextChars, MaxTextLen)} \cup {NoneV, PyInt(1)}

\* the stop-word lists
StopWordsPool ==
    {<<>>, <<PyStr(<<"a">>)>>, <<PyStr(<<"B">>)>>,
     <<PyStr(<<"a">>), PyStr(<<"a", "b">>)>>, <<PyStr(<<"b">>), PyStr(<<"B">>)>>}

\* the characters \w matches in the modelled alphabet
IsWord(c) == c \in {"a", "b", "A", "B", "_"} \/ IsDigit(c)

\* whether position i of s holds a word character; the ends of s do not
IsWordAt(s, i) == i \in 1..Len(s) /\ IsWord(s[i])

\* \b before position p: exactly one side is a word character
IsBoundary(s, p) == IsWordAt(s, p - 1) # IsWordAt(s, p)

\* whether \b\w+\b matches s[p..e]
matches(s, p, e) ==
    /\ IsBoundary(s, p)
    /\ \A j \in p..e : IsWord(s[j])
    /\ IsBoundary(s, e + 1)

\* a mistaken match that takes the shortest run of word characters
match_at_lazy(s, p) ==
    IF p <= Len(s) /\ IsWord(s[p]) THEN p ELSE 0

\* the end of the match of \b\w+\b at p: \w+ takes the longest run first
\* and gives characters back until \b holds; 0 when there is no match
match_at(s, p) ==
    LET ends == {e \in p..Len(s) : matches(s, p, e)}
    IN IF ends = {} THEN 0 ELSE CHOOSE e \in ends : \A f \in ends : f <= e

\* re.findall: scan from the left, continue after each match
RECURSIVE findall_loop(_, _, _)
findall_loop(s, p, words) ==
    IF p > Len(s) THEN words
    ELSE LET e == match_at(s, p)
         IN IF e = 0 THEN findall_loop(s, p + 1, words)
            ELSE findall_loop(s, e + 1, Append(words, SubSeq(s, p, e)))

findall(s) == findall_loop(s, 1, <<>>)

tokenize_text(txt) ==
    IF txt.t # "str" THEN EmptyStr
    ELSE PyStr(join(findall(lower(txt.s))))

\* the characters of the texts tokenized: letters of both cases, a digit,
\* the underscore, punctuation and a space
TokenChars == {"a", "B", "1", "_", ",", " "}

\* the texts tokenized, and two arguments that are not strings
TokenTextPool ==
    {PyStr(s) : s \in SeqsUpTo(TokenChars, MaxTextLen)} \cup {NoneV, PyInt(1)}

(***************************************************************************)
(* standardize_z_score and logarithmic_transform.  A square root or a      *)
(* logarithm that is not a fraction is kept as a symbol: kind "sqrt" is    *)
(* the root of |num|/den with the sign of num, kind "log" is ln(num/den).  *)
(***************************************************************************)
IsSquare(n) == \E r \in 0..n : r * r = n

Root(n) == CHOOSE r \in 0..n : r * r = n

\* sign * sqrt(n/d) for a fraction n/d >= 0 in lowest terms
SqrtOf(sign, n, d) ==
    IF IsSquare(n) /\ IsSquare(d) THEN PyFloat(sign * Root(n), Root(d))
    ELSE [t |-> "float", k |-> "sqrt", num |-> sign * n, den |-> d, s |-> <<>>]

\* math.sqrt(v) for v >= 0, infinite or NaN
math_sqrt(v) ==
    CASE IsNan(v) -> NaN
      [] IsInf(v) -> v
      [] OTHER -> LET r == MkNum(TRUE, v.num, v.den) IN SqrtOf(1, r.num, r.den)

\* sum(x): 0 + x[1] + ... + x[n]
RECURSIVE py_sum(_, _)
py_sum(x, n) == IF n = 0 THEN PyInt(0) ELSE NumAdd(py_sum(x, n - 1), x[n])

\* a / std_dev, std_dev not 0
DivByStd(a, sd) ==
    IF sd.k # "sqrt" THEN NumDiv(a, sd)
    ELSE CASE IsNan(a) -> NaN
           [] IsInf(a) -> a
           [] OTHER -> LET q == MkNum(TRUE, a.num * a.num * sd.den, a.den * a.den * sd.num)
                       IN SqrtOf(Sgn(a.num), q.num, q.den)

standardize_z_score(d) ==
    IF d = <<>> THEN <<>>
    ELSE LET nd == numeric_data(d)
             n == Len(nd)
         IN IF nd = <<>> THEN <<>>
            ELSE LET mean == NumDiv(py_sum(nd, n), PyInt(n))
                     sq == [i \in 1..n |-> NumMul(NumSub(nd[i], mean), NumSub(nd[i], mean))]
                     variance == NumDiv(py_sum(sq, n), PyInt(n))
                     std_dev == math_sqrt(variance)
                 IN IF IsZero(std_dev) THEN [i \in 1..n |-> PyFloat(0, 1)]
                    ELSE [i \in 1..n |-> DivByStd(NumSub(nd[i], mean), std_dev)]

\* math.log(x) for x > 0
math_log(x) ==
    CASE IsInf(x) -> x
      [] x.num = x.den -> PyFloat(0, 1)
      [] OTHER -> LET r == MkNum(TRUE, x.num, x.den)
                  IN [t |-> "float", k |-> "log", num |-> r.num, den |-> r.den, s |-> <<>>]

RECURSIVE log_loop(_, _, _)
log_loop(d, i, transformed_data) ==
    IF i > Len(d) THEN transformed_data
    ELSE log_loop(d, i + 1,
                  IF IsNumeric(d[i]) /\ NumGt(d[i], PyInt(0))
                  THEN Append(transformed_data, math_log(d[i]))
                  ELSE transformed_data)

logarithmic_transform(d) == log_loop(d, 1, <<>>)

\* the elements of the lists transformed: positive, zero and negative
\* numbers, a bool, infinity, NaN and a string
LogPool ==
    {PyInt(1), PyInt(0), PyInt(-1), PyFloat(3, 2), PyBool(TRUE), PosInf, NaN,
     PyStr(<<"a">>)}

(***************************************************************************)
(* The caller                                                              *)
(***************************************************************************)
\* the interpreter seeds the generator from the operating system at start-up
Init ==
    /\ pc = "idle"
    /\ op = "none"
    /\ data = <<>>
    /\ data0 = <<>>
    /\ fill_value = Unset
    /\ min_val = Unset
    /\ max_val = Unset
    /\ new_min = Unset
    /\ new_max = Unset
    /\ seed = Unset
    /\ text = Unset
    /\ stop_words = <<>>
    /\ result = NoResult
    /\ rng \in RngStates

CallRemoveMissing ==
    /\ pc = "idle"
    /\ \E d \in SeqsUpTo(CleanPool, MaxLen) :
          /\ data0' = d
          /\ data' = d
          /\ result' = Returned(remove_missing_values(d))
    /\ pc' = "returned"
    /\ op' = "remove_missing_values"
    /\ UNCHANGED <<fill_value, min_val, max_val, seed, rng, new_min, new_max, text, stop_words>>

CallFillMissing ==
    /\ pc = "idle"
    /\ \E d \in SeqsUpTo(CleanPool, MaxLen), fv \in FillPool :
          /\ data0' = d
          /\ data' = d
          /\ fill_value' = fv
          /\ result' = Returned(filling_missing_values(d, fv))
    /\ pc' = "returned"
    /\ op' = "filling_missing_values"
    /\ UNCHANGED <<min_val, max_val, seed, rng, new_min, new_max, text, stop_words>>

\* the caller takes the outcome and drops the call's arguments
Return ==
    /\ pc = "returned"
    /\ pc' = "idle"
    /\ op' = "none"
    /\ data' = <<>>
    /\ data0' = <<>>
    /\ fill_value' = Unset
    /\ min_val' = Unset
    /\ max_val' = Unset
    /\ new_min' = Unset
    /\ new_max' = Unset
    /\ seed' = Unset
    /\ text' = Unset
    /\ stop_words' = <<>>
    /\ result' = NoResult
    /\ UNCHANGED rng

NextClean == CallRemoveMissing \/ CallFillMissing \/ Return

SpecClean == Init /\ [][NextClean]_vars

CallShuffle ==
    /\ pc = "idle"
    /\ \E d \in SeqsUpTo(ShufflePool, MaxShuffleLen), sd \in SeedPool :
          LET r == shuffle_list(d, sd, rng)
          IN /\ data0' = d
             /\ data' = r.data
             /\ seed' = sd
             /\ result' = Returned(r.ret)
             /\ rng' = r.rng
    /\ pc' = "returned"
    /\ op' = "shuffle_list"
    /\ UNCHANGED <<fill_value, min_val, max_val, new_min, new_max, text, stop_words>>

NextShuffle == CallShuffle \/ Return

SpecShuffle == Init /\ [][NextShuffle]_vars

CallClip ==
    /\ pc = "idle"
    /\ \E d \in SeqsUpTo(ClipPool, MaxClipLen), lo \in BoundPool, hi \in BoundPool :
          /\ data0' = d
          /\ data' = d
          /\ min_val' = lo
          /\ max_val' = hi
          /\ result' = clip_values(d, lo, hi)
    /\ pc' = "returned"
    /\ op' = "clip_values"
    /\ UNCHANGED <<fill_value, seed, rng, new_min, new_max, text, stop_words>>

NextClip == CallClip \/ Return

SpecClip == Init /\ [][NextClip]_vars

CallConvert ==
    /\ pc = "idle"
    /\ \E d \in SeqsUpTo(ConvPool, MaxConvLen) :
          /\ data0' = d
          /\ data' = d
          /\ result' = convert_to_integers(d)
    /\ pc' = "returned"
    /\ op' = "convert_to_integers"
    /\ UNCHANGED <<fill_value, min_val, max_val, seed, rng, new_min, new_max, text, stop_words>>

NextConvert == CallConvert \/ Return

SpecConvert == Init /\ [][NextConvert]_vars

CallRemoveDuplicated ==
    /\ pc = "idle"
    /\ \E d \in SeqsUpTo(DedupPool, MaxDedupLen) :
          /\ data0' = d
          /\ data' = d
          /\ result' = Returned(remove_duplicated_values(d))
    /\ pc' = "returned"
    /\ op' = "remove_duplicated_values"
    /\ UNCHANGED <<fill_value, min_val, max_val, new_min, new_max, seed, text, stop_words, rng>>

NextDedup == CallRemoveDuplicated \/ Return

SpecDedup == Init /\ [][NextDedup]_vars

CallNormalize ==
    /\ pc = "idle"
    /\ \E d \in SeqsUpTo(NormPool, MaxNormLen), lo \in NewBoundPool, hi \in NewBoundPool :
          /\ data0' = d
          /\ data' = d
          /\ new_min' = lo
          /\ new_max' = hi
          /\ result' = normalize_min_max(d, lo, hi)
    /\ pc' = "returned"
    /\ op' = "normalize_min_max"
    /\ UNCHANGED <<fill_value, min_val, max_val, seed, text, stop_words, rng>>

NextNormalize == CallNormalize \/ Return

SpecNormalize == Init /\ [][NextNormalize]_vars

CallFlatten ==
    /\ pc = "idle"
    /\ \E d \in SeqsUpTo(FlattenPool, MaxFlattenLen) :
          /\ data0' = d
          /\ data' = d
          /\ result' = Returned(flatten_list(d))
    /\ pc' = "returned"
    /\ op' = "flatten_list"
    /\ UNCHANGED <<fill_value, min_val, max_val, new_min, new_max, seed, text, stop_words, rng>>

NextFlatten == CallFlatten \/ Return

SpecFlatten == Init /\ [][NextFlatten]_vars

CallRemoveStopWords ==
    /\ pc = "idle"
    /\ \E txt \in StopTextPool, stop \in StopWordsPool :
          /\ text' = txt
          /\ stop_words' = stop
          /\ result' = Returned(remove_stop_words(txt, stop))
    /\ pc' = "returned"
    /\ op' = "remove_stop_words"
    /\ UNCHANGED <<data, data0, fill_value, min_val, max_val, new_min, new_max, seed, rng>>

NextStopWords == CallRemoveStopWords \/ Return

SpecStopWords == Init /\ [][NextStopWords]_vars

CallTokenize ==
    /\ pc = "idle"
    /\ \E txt \in TokenTextPool :
          /\ text' = txt
          /\ result' = Returned(tokenize_text(txt))
    /\ pc' = "returned"
    /\ op' = "tokenize_text"
    /\ UNCHANGED <<data, data0, fill_value, min_val, max_val, new_min, new_max, seed,
                   stop_words, rng>>

NextTokenize == CallTokenize \/ Return

SpecTokenize == Init /\ [][NextTokenize]_vars

CallStandardize ==
    /\ pc = "idle"
    /\ \E d \in SeqsUpTo(NormPool, MaxNormLen) :
          /\ data0' = d
          /\ data' = d
          /\ result' = Returned(standardize_z_score(d))
    /\ pc' = "returned"
    /\ op' = "standardize_z_score"
    /\ UNCHANGED <<fill_value, min_val, max_val, new_min, new_max, seed, text, stop_words, rng>>

CallLogarithmic ==
    /\ pc = "idle"
    /\ \E d \in SeqsUpTo(LogPool, MaxNormLen) :
          /\ data0' = d
          /\ data' = d
          /\ result' = Returned(logarithmic_transform(d))
    /\ pc' = "returned"
    /\ op' = "logarithmic_transform"
    /\ UNCHANGED <<fill_value, min_val, max_val, new_min, new_max, seed, text, stop_words, rng>>

\* the ten functions that take a list
NextLists ==
    \/ CallRemoveMissing
    \/ CallFillMissing
    \/ CallRemoveDuplicated
    \/ CallNormalize
    \/ CallStandardize
    \/ CallClip
    \/ CallConvert
    \/ CallLogarithmic
    \/ CallFlatten
    \/ CallShuffle
    \/ Return

SpecLists == Init /\ [][NextLists]_vars

\* every call the caller can make
Next == CallRemoveMissing \/ CallFillMissing \/ CallClip \/ CallConvert \/ CallShuffle \/ CallRemoveDuplicated \/ CallNormalize \/ CallFlatten \/ CallRemoveStopWords \/ CallTokenize \/ CallStandardize \/ CallLogarithmic \/ Return

Spec == Init /\ [][Next]_vars

(***************************************************************************)
(* Properties                                                              *)
(***************************************************************************)
\* a missing value in the words of the specification: None, the empty
\* string or a not-a-number float
Missing(x) == x.t = "none" \/ (x.t = "str" /\ Len(x.s) = 0) \/ (x.t = "float" /\ x.k = "nan")

AfterCall(f) == pc = "returned" /\ op = f

C2_FillIsPointwise ==
    AfterCall("filling_missing_values") =>
        /\ result.kind = "return"
        /\ Len(result.val) = Len(data)
        /\ \A i \in 1..Len(data) :
              result.val[i] = IF Missing(data[i]) THEN fill_value ELSE data[i]

C2_Witness ==
    /\ AfterCall("filling_missing_values")
    /\ fill_value = NoneV
    /\ data = <<NaN, PyInt(0), EmptyStr>>
    /\ result.val = <<NoneV, PyInt(0), NoneV>>

\* the positions of S that remove_missing_values(filling_missing_values(S, v))
\* drops: the filter works element by element, so position i is dropped when
\* the filter empties the one-element list of the filled i-th element
DroppedPositions(S, v) ==
    {i \in 1..Len(S) : remove_missing_values(<<filling_missing_values(S, v)[i]>>) = <<>>}

\* C3 as stated: the positions dropped by fill-then-re-filter are the same
\* for every two fill values.
C3_DroppedSameForAllFills ==
    AfterCall("filling_missing_values") =>
        \A v2 \in FillPool : DroppedPositions(data, v2) = DroppedPositions(data, fill_value)

\* C3 amended: the positions dropped by fill-then-re-filter depend only on
\* whether the fill value is itself missing: none is dropped for a fill value
\* that is not missing, exactly the missing positions of S for one that is;
\* so two fill values that are both missing or both not missing drop the
\* same positions, and a non-missing element of S is never dropped.
C3_DroppedDependsOnFillMissing ==
    AfterCall("filling_missing_values") =>
        /\ DroppedPositions(data, fill_value) =
              IF Missing(fill_value) THEN {i \in 1..Len(data) : Missing(data[i])} ELSE {}
        /\ Len(remove_missing_values(result.val)) =
              Len(data) - Cardinality(DroppedPositions(data, fill_value))
        /\ \A v2 \in FillPool :
              (Missing(v2) <=> Missing(fill_value)) =>
                  DroppedPositions(data, v2) = DroppedPositions(data, fill_value)

C3_Witness ==
    /\ AfterCall("filling_missing_values")
    /\ fill_value = EmptyStr
    /\ data = <<NoneV, PyFloat(3, 2), NaN>>
    /\ DroppedPositions(data, fill_value) = {1, 3}
    /\ DroppedPositions(data, PyInt(0)) = {}

\* how often v occurs in the list x
Count(x, v) == Cardinality({i \in 1..Len(x) : x[i] = v})

\* the list 1..n as Python integers
Indices(n) == [i \in 1..n |-> PyInt(i)]

\* C4: a seeded shuffle_list is deterministic after any history: whatever
\* state earlier calls left the generator in, the call returns the order it
\* returned, and that order is data rearranged by a permutation of positions
\* that depends on the seed and the length alone.
C4_SeededShuffleDeterministic ==
    (AfterCall("shuffle_list") /\ seed.t = "int") =>
        \A g \in RngStates :
            /\ shuffle_list(data, seed, g).ret = result.val
            /\ LET perm == shuffle_list(Indices(Len(data)), seed, g).ret
               IN result.val = [i \in 1..Len(data) |-> data[perm[i].num]]

C4_Witness ==
    /\ AfterCall("shuffle_list")
    /\ seed = PyInt(42)
    /\ data = <<PyInt(1), PyInt(2), PyInt(3)>>
    /\ result.val # data
    /\ rng # random_seed(rng, seed)

\* C5: a call shuffle_list(S, seed=k) leaves the process-wide generator as
\* it was before the call.
C5_SeededCallLeavesGenerator ==
    [][(pc' = "returned" /\ op' = "shuffle_list" /\ seed'.t = "int") => rng' = rng]_vars

\* C6: for every seed, integer or None, shuffle_list returns a permutation
\* of its input: same length, every element as often as in the input.
C6_ShuffleIsPermutation ==
    AfterCall("shuffle_list") =>
        /\ result.kind = "return"
        /\ Len(result.val) = Len(data)
        /\ \A v \in ShufflePool : Count(result.val, v) = Count(data, v)

C6_Witness ==
    /\ AfterCall("shuffle_list")
    /\ seed = NoneV
    /\ data = <<PyInt(1), PyInt(1), PyInt(2)>>
    /\ result.val = <<PyInt(2), PyInt(1), PyInt(1)>>

\* a <= b for numbers
NumLe(a, b) == NumLt(a, b) \/ PyEq(a, b)

\* C7: clip_values raises ValueError whenever min_val > max_val, for every
\* data, the empty list and lists without a numeric element included, and
\* returns no partial result then; when min_val <= max_val it does not raise.
C7_ClipRaisesIffBoundsInverted ==
    AfterCall("clip_values") =>
        /\ NumGt(min_val, max_val) => result = Raised("ValueError")
        /\ NumLe(min_val, max_val) => result.kind = "return"

C7_Witness ==
    /\ AfterCall("clip_values")
    /\ data = <<PyStr(<<"s", "k", "i", "p">>)>>
    /\ min_val = PyInt(2)
    /\ max_val = PyFloat(1, 2)
    /\ result = Raised("ValueError")

\* a number in the sense of the specification's values: an integer, boolean
\* or float that is not the not-a-number marker
IsNumber(x) == IsNumeric(x) /\ ~IsNan(x)

\* x clipped to [lo, hi]
Clipped(x, lo, hi) == IF NumLt(x, lo) THEN lo ELSE IF NumGt(x, hi) THEN hi ELSE x

\* the list f(x[1]), ..., f(x[n])
MapSeq(x, f(_)) == [i \in 1..Len(x) |-> f(x[i])]

\* C8: for min_val <= max_val, clip_values returns one entry per numeric
\* element, in order, clipped to the bounds; every entry of the result lies
\* in [min_val, max_val] and clipping the result again leaves it unchanged.
C8_ClipResultWithinBounds ==
    (AfterCall("clip_values") /\ NumLe(min_val, max_val)) =>
        /\ result.kind = "return"
        /\ LET numbers == SelectSeq(data, IsNumber)
               clip(x) == Clipped(x, min_val, max_val)
           IN result.val = MapSeq(numbers, clip)
        /\ \A i \in 1..Len(result.val) :
              NumLe(min_val, result.val[i]) /\ NumLe(result.val[i], max_val)
        /\ clip_values(result.val, min_val, max_val) = result

IsStr(x) == x.t = "str"

\* C9: convert_to_integers returns normally for every list of strings,
\* "inf", "-inf", "nan" and "" included: each string contributes one
\* integer or is excluded.
C9_ConvertNeverRaises ==
    (AfterCall("convert_to_integers") /\ \A i \in 1..Len(data) : IsStr(data[i])) =>
        /\ result.kind = "return"
        /\ Len(result.val) <= Len(data)
        /\ \A j \in 1..Len(result.val) : result.val[j].t = "int"

\* the string writes a finite decimal number: blanks around, an optional
\* sign, digits with an optional point and an optional power of ten
DenotesDecimal(x) == IsStr(x) /\ IsDecimal(Unsigned(Strip(x.s)))

\* the string writes no number at all
DenotesNoNumber(x) ==
    /\ IsStr(x)
    /\ ~DenotesDecimal(x)
    /\ Unsigned(Strip(x.s)) \notin
          {<<"i", "n", "f">>, <<"i", "n", "f", "i", "n", "i", "t", "y">>, <<"n", "a", "n">>}

\* the value of a decimal string truncated toward zero, as a Python integer
TruncatedValue(x) ==
    LET cs == Strip(x.s)
        p == DecimalParts(Unsigned(cs))
        D == DigitsVal(StripZeros(p.int \o p.frac))
        E == (IF p.has_exp THEN SignOf(p.exp) * DigitsVal(Unsigned(p.exp)) ELSE 0) - Len(p.frac)
    IN PyInt(SignOf(cs) * (IF E >= 0 THEN D * Pow10(E) ELSE D \div Pow10(-E)))

\* C10: for a list of strings that each write a finite decimal number or no
\* number at all, convert_to_integers returns, in order, the value of each
\* numeric string truncated toward zero and nothing for the others.
C10_ConvertTruncatesTowardZero ==
    (/\ AfterCall("convert_to_integers")
     /\ \A i \in 1..Len(data) : DenotesDecimal(data[i]) \/ DenotesNoNumber(data[i])) =>
        /\ result.kind = "return"
        /\ result.val = MapSeq(SelectSeq(data, DenotesDecimal), TruncatedValue)

\* one value in the host language's sense: the same object, or equal by ==
SameValue(a, b) == a = b \/ PyEq(a, b)

\* the elements of S at the indices in I, in order
RECURSIVE SubSeqAt(_, _, _)
SubSeqAt(S, I, i) ==
    IF i > Len(S) THEN <<>>
    ELSE (IF i \in I THEN <<S[i]>> ELSE <<>>) \o SubSeqAt(S, I, i + 1)

\* the indices of S that hold the first occurrence of their value
FirstOccurrences(S) ==
    {i \in 1..Len(S) : \A j \in 1..(i - 1) : ~SameValue(S[j], S[i])}

\* C11: remove_duplicated_values keeps exactly the first occurrence of each
\* distinct value, in order: no two entries of the result are equal, every
\* value of the input appears in the result, and values equal across types
\* (10 and 10.0, True and 1) are one value, spelled as it first occurred.
C11_DedupKeepsFirstOccurrences ==
    AfterCall("remove_duplicated_values") =>
        /\ result = Returned(SubSeqAt(data0, FirstOccurrences(data0), 1))
        /\ \A i, j \in 1..Len(result.val) : i # j => ~PyEq(result.val[i], result.val[j])
        /\ \A i \in 1..Len(data0) : \E j \in 1..Len(result.val) : SameValue(data0[i], result.val[j])

C11_Witness ==
    /\ AfterCall("remove_duplicated_values")
    /\ data0 = <<PyFloat(10, 1), PyBool(TRUE), PyInt(10)>>
    /\ result.val = <<PyFloat(10, 1), PyBool(TRUE)>>

\* C12: remove_duplicated_values is idempotent: applied to its own result it
\* returns that result.
C12_DedupIdempotent ==
    AfterCall("remove_duplicated_values") =>
        remove_duplicated_values(result.val) = result.val

C12_Witness ==
    /\ AfterCall("remove_duplicated_values")
    /\ data0 = <<PyStr(<<"a">>), PyInt(1), PyStr(<<"a">>)>>
    /\ result.val = <<PyStr(<<"a">>), PyInt(1)>>
    /\ remove_duplicated_values(result.val) = result.val

\* the numbers of a list, in order
Numbers(S) == SelectSeq(S, IsNumber)

\* C13: when the numeric elements are not all equal, normalize_min_max
\* returns one entry per numeric element, in order, each equal to
\* new_min + (x - old_min) * (new_max - new_min) / (old_max - old_min); the
\* minimum maps to new_min, the maximum to new_max, and for
\* new_min <= new_max every entry lies in [new_min, new_max].
C13_NormalizeRescales ==
    LET xs == Numbers(data0)
        n == Len(xs)
    IN (/\ AfterCall("normalize_min_max")
        /\ \E i, j \in 1..n : ~PyEq(xs[i], xs[j])) =>
           LET old_min == xs[CHOOSE i \in 1..n : \A j \in 1..n : NumLe(xs[i], xs[j])]
               old_max == xs[CHOOSE i \in 1..n : \A j \in 1..n : NumLe(xs[j], xs[i])]
           IN /\ result.kind = "return"
              /\ Len(result.val) = n
              /\ \A i \in 1..n :
                    /\ PyEq(result.val[i],
                            Rescale(xs[i], old_min, NumSub(old_max, old_min), new_min, new_max))
                    /\ PyEq(xs[i], old_min) => PyEq(result.val[i], new_min)
                    /\ PyEq(xs[i], old_max) => PyEq(result.val[i], new_max)
                    /\ NumLe(new_min, new_max) =>
                          NumLe(new_min, result.val[i]) /\ NumLe(result.val[i], new_max)

\* C17: normalize_min_max never raises: it returns the empty list when the
\* input is empty or has no numeric element, and new_min once per numeric
\* element when all numeric elements are equal.
C17_NormalizeDegenerateCases ==
    LET xs == numeric_data(data0)
        n == Len(xs)
    IN AfterCall("normalize_min_max") =>
          /\ result.kind = "return"
          /\ n = 0 => result.val = <<>>
          /\ (n > 0 /\ \A i, j \in 1..n : PyEq(xs[i], xs[j])) =>
                result.val = [i \in 1..n |-> new_min]

\* what a top-level element contributes: its elements if it is a list, else itself
Piece(x) == IF IsList(x) THEN x.s ELSE <<x>>

\* the number of result entries contributed by the first i elements of S
RECURSIVE PieceOffset(_, _)
PieceOffset(S, i) == IF i = 0 THEN 0 ELSE PieceOffset(S, i - 1) + Len(Piece(S[i]))

\* C14: flatten_list returns the concatenation, in order, of each list
\* element's own elements and each non-list element itself, one level only:
\* a list nested two levels deep stays a list in the result, and a list
\* without list elements is returned equal to itself.
C14_FlattenOneLevel ==
    AfterCall("flatten_list") =>
       /\ result.kind = "return"
       /\ Len(result.val) = PieceOffset(data0, Len(data0))
       /\ \A i \in 1..Len(data0) : \A j \in 1..Len(Piece(data0[i])) :
             result.val[PieceOffset(data0, i - 1) + j] = Piece(data0[i])[j]
       /\ (\A i \in 1..Len(data0) : ~IsList(data0[i])) => result.val = data0

\* a scalar, then a list holding a scalar and a nested list: the nested list
\* stays a list
C14_Witness ==
    /\ AfterCall("flatten_list")
    /\ data0 = <<PyInt(1), PyList(<<PyInt(3), PyList(<<PyInt(4)>>)>>)>>
    /\ result.val = <<PyInt(1), PyInt(3), PyList(<<PyInt(4)>>)>>

\* the positions where a maximal run of characters satisfying In begins
RunStarts(s, In(_)) == {i \in 1..Len(s) : In(s[i]) /\ (i = 1 \/ ~In(s[i - 1]))}

\* the maximal run that begins at position i
RunAt(s, i, In(_)) ==
    SubSeq(s, i, CHOOSE e \in i..Len(s) :
                    /\ \A j \in i..e : In(s[j])
                    /\ e = Len(s) \/ ~In(s[e + 1]))

\* the maximal runs of s, in order
Runs(s, In(_)) ==
    LET starts == RunStarts(s, In)
        Kth(k) == CHOOSE i \in starts : Cardinality({j \in starts : j < i}) = k - 1
    IN [k \in 1..Cardinality(starts) |-> RunAt(s, Kth(k), In)]

NotSpace(c) == ~IsSpace(c)

\* words joined by single spaces
RECURSIVE Joined(_, _)
Joined(ws, n) ==
    IF n = 0 THEN <<>>
    ELSE IF n = 1 THEN ws[1]
    ELSE Joined(ws, n - 1) \o <<" ">> \o ws[n]

IsStopWord(w) == \E k \in 1..Len(stop_words) : stop_words[k] = PyStr(w)

NotStopWord(w) == ~IsStopWord(w)

HasUpper(w) == \E i \in 1..Len(w) : lower_char(w[i]) # w[i]

\* C15: remove_stop_words returns the whitespace-separated words of the
\* lower-cased text, in order and joined by single spaces, minus exactly the
\* words that are members of stop_words; no word of the result is a stop
\* word, and a stop word with an upper-case letter removes nothing.
C15_StopWordsRemoved ==
    (AfterCall("remove_stop_words") /\ IsStr(text)) =>
       LET words == Runs(lower(text.s), NotSpace)
           kept == SelectSeq(words, NotStopWord)
       IN /\ result = Returned(PyStr(Joined(kept, Len(kept))))
          /\ \A w \in {Runs(result.val.s, NotSpace)[k] :
                          k \in 1..Len(Runs(result.val.s, NotSpace))} : ~IsStopWord(w)
          /\ \A k \in 1..Len(stop_words) :
                HasUpper(stop_words[k].s) =>
                   \A i \in 1..Len(words) : words[i] # stop_words[k].s

\* "B a" with stop words b and B: the word b goes, a stays
C15_Witness ==
    /\ AfterCall("remove_stop_words")
    /\ text = PyStr(<<"B", "\t", " ", "a">>)
    /\ stop_words = <<PyStr(<<"b">>), PyStr(<<"B">>)>>
    /\ result.val = PyStr(<<"a">>)

\* C16: for a string, tokenize_text returns the maximal runs of word
\* characters of the lower-cased text, in order, joined by one space: the
\* result holds only word characters and single spaces between them, and
\* tokenizing it again changes nothing; for a non-string it returns "".
C16_TokenizeWordRuns ==
    AfterCall("tokenize_text") =>
       IF IsStr(text)
       THEN LET words == Runs(lower(text.s), IsWord)
                r == result.val.s
            IN /\ result = Returned(PyStr(Joined(words, Len(words))))
               /\ \A i \in 1..Len(r) : IsWord(r[i]) \/ r[i] = " "
               /\ r # <<>> => r[1] # " " /\ r[Len(r)] # " "
               /\ \A i \in 1..(Len(r) - 1) : ~(r[i] = " " /\ r[i + 1] = " ")
               /\ tokenize_text(result.val) = result.val
       ELSE result = Returned(EmptyStr)

\* "B,_1": the comma separates the words b and _1
C16_Witness ==
    /\ AfterCall("tokenize_text")
    /\ text = PyStr(<<"B", ",", "_", "1">>)
    /\ result.val = PyStr(<<"b", " ", "_", "1">>)

ListFunctions ==
    {"remove_missing_values", "filling_missing_values", "remove_duplicated_values",
     "normalize_min_max", "standardize_z_score", "clip_values", "convert_to_integers",
     "logarithmic_transform", "flatten_list", "shuffle_list"}

\* C18: after a call of any of the ten list functions, whether it returned
\* or raised, the caller's list, and every list nested in it, has the same
\* elements in the same order as before the call.
C18_InputListUnchanged ==
    (pc = "returned" /\ op \in ListFunctions) => data = data0

\* a shuffle that returned another order than the caller's list has
C18_Witness ==
    /\ AfterCall("shuffle_list")
    /\ Len(data0) = MaxShuffleLen
    /\ result.val # data0
    /\ data = data0

====
